---- MODULE Spec2Model ----
(***************************************************************************)
(* Model of server.js: the upload handler (POST /api/e/:eventId/upload),   *)
(* the metadata store (local db.json or the Supabase tables), the storage  *)
(* backend (uploads/ directory or the Supabase bucket), the ZIP export     *)
(* (GET /admin/:eventId/download.zip), the admin page (GET /admin/:eventId)*)
(* with attachViewUrls, the file endpoint (GET /admin/file/...) and the    *)
(* event page (GET /e/:eventId).                                           *)
(*                                                                         *)
(* Strings are sequences of one-character strings, so that extname,        *)
(* basename, padStart and the sanitising regexes are computed character by *)
(* character.  A character outside ASCII is written as a name              *)
(* ("e_acute"), which stands for one code point.                           *)
(***************************************************************************)
EXTENDS Integers, Sequences, FiniteSets, TLC

VARIABLES
    backend,      \* STORAGE_BACKEND: "local" or "supabase"
    dbEvents,     \* events of the metadata store (db.events / public.events)
    dbUploads,    \* upload records of the metadata store, in insertion order
    objects,      \* keys of the stored objects: files under uploads/ or bucket objects
    now,          \* the clock read by Date.now() / new Date()
    reqs,         \* the upload requests, each with its handler's local variables
    exps,         \* the export requests, each with its handler's local variables
    nameArgs,     \* arguments of the buildArchiveEntryName calls made so far
    nameOut,      \* the names those calls returned
    views         \* the requests of the admin page and of the file endpoint

vars == <<backend, dbEvents, dbUploads, objects, now, reqs, exps,
          nameArgs, nameOut, views>>

---------------------------------------------------------------------------
(* Bounds of the model *)

MaxRequests == 2
MaxExports == 1
MaxViews == 1
MaxEvents == 2
MaxClock == 1
MaxTotalFiles == 3
IdxWindow == 1
MaxPow == 3

(* Configuration of the process (environment variables) *)

MAX_FILES_PER_REQUEST == 3
MAX_FILE_SIZE == 2

(* Program constants *)

PadLen == 3
SliceLen == 80

---------------------------------------------------------------------------
(* Characters and strings *)

Lower == {"a","b","c","d","e","f","g","h","i","j","k","l","m",
          "n","o","p","q","r","s","t","u","v","w","x","y","z"}
Upper == {"A","B","C","D","E","F","G","H","I","J","K","L","M",
          "N","O","P","Q","R","S","T","U","V","W","X","Y","Z"}
Digit == {"0","1","2","3","4","5","6","7","8","9"}

\* the class [a-zA-Z0-9._-] of sanitizeArchiveName
SafeChar == Lower \cup Upper \cup Digit \cup {".", "_", "-"}

\* the characters outside \x00-\x7F that the model uses
NonAscii == {"e_acute", "comb_acute", "sharp_s"}

\* String.prototype.normalize("NFKD"): compatibility decomposition
RECURSIVE NormalizeNFKD(_)
NormalizeNFKD(s) ==
    IF s = <<>> THEN <<>>
    ELSE (IF Head(s) = "e_acute" THEN <<"e", "comb_acute">> ELSE <<Head(s)>>)
         \o NormalizeNFKD(Tail(s))

\* .replace(/[^\x00-\x7F]/g, "")
RECURSIVE StripNonAscii(_)
StripNonAscii(s) ==
    IF s = <<>> THEN <<>>
    ELSE IF Head(s) \in NonAscii THEN StripNonAscii(Tail(s))
         ELSE <<Head(s)>> \o StripNonAscii(Tail(s))

RECURSIVE DropUnsafe(_)
DropUnsafe(s) ==
    IF s = <<>> THEN <<>>
    ELSE IF Head(s) \notin SafeChar THEN DropUnsafe(Tail(s)) ELSE s

\* .replace(/[^a-zA-Z0-9._-]+/g, "-")
RECURSIVE ReplaceUnsafeRuns(_)
ReplaceUnsafeRuns(s) ==
    IF s = <<>> THEN <<>>
    ELSE IF Head(s) \notin SafeChar THEN <<"-">> \o ReplaceUnsafeRuns(DropUnsafe(s))
         ELSE <<Head(s)>> \o ReplaceUnsafeRuns(Tail(s))

RECURSIVE DropDashes(_)
DropDashes(s) ==
    IF s = <<>> THEN <<>>
    ELSE IF Head(s) = "-" THEN DropDashes(Tail(s)) ELSE s

\* .replace(/-+/g, "-")
RECURSIVE CollapseDashes(_)
CollapseDashes(s) ==
    IF s = <<>> THEN <<>>
    ELSE IF Head(s) = "-" THEN <<"-">> \o CollapseDashes(DropDashes(s))
         ELSE <<Head(s)>> \o CollapseDashes(Tail(s))

\* .replace(/^-|-$/g, ""): one dash at the start and one dash at the end
TrimDash(s) ==
    LET a == IF s # <<>> /\ Head(s) = "-" THEN Tail(s) ELSE s
    IN  IF a # <<>> /\ a[Len(a)] = "-" THEN SubSeq(a, 1, Len(a) - 1) ELSE a

\* String.prototype.slice(0, n)
Slice0(s, n) == IF Len(s) <= n THEN s ELSE SubSeq(s, 1, n)

StartsWith(s, p) == Len(s) >= Len(p) /\ SubSeq(s, 1, Len(p)) = p

Arsiv == <<"a","r","s","i","v">>

\* sanitizeArchiveName(value), value a string
sanitizeArchiveName(value) ==
    LET safe == Slice0(TrimDash(CollapseDashes(ReplaceUnsafeRuns(
                    StripNonAscii(NormalizeNFKD(value))))), SliceLen)
    IN  IF safe = <<>> THEN Arsiv ELSE safe

\* the last component of a path, trailing slashes ignored (path.basename)
RECURSIVE StripTrailingSlashes(_)
StripTrailingSlashes(s) ==
    IF s # <<>> /\ s[Len(s)] = "/"
      THEN StripTrailingSlashes(SubSeq(s, 1, Len(s) - 1))
      ELSE s

LastIndexOf(s, c) ==
    LET hits == {i \in 1..Len(s) : s[i] = c}
    IN  IF hits = {} THEN 0 ELSE CHOOSE i \in hits : \A j \in hits : j <= i

basename(p) ==
    LET t == StripTrailingSlashes(p)
    IN  SubSeq(t, LastIndexOf(t, "/") + 1, Len(t))

\* path.extname: from the last dot of the last component to its end; empty
\* when there is no dot, when the dot is the component's first character,
\* or when the component is ".."
extname(p) ==
    LET c == basename(p)
        d == LastIndexOf(c, ".")
    IN  IF d = 0 \/ d = 1 \/ (c[1] = "." /\ d = Len(c) /\ d = 2)
          THEN <<>>
          ELSE SubSeq(c, d, Len(c))

\* String(n) for n >= 0
DigitOf(d) == CASE d = 0 -> "0" [] d = 1 -> "1" [] d = 2 -> "2" [] d = 3 -> "3"
                [] d = 4 -> "4" [] d = 5 -> "5" [] d = 6 -> "6" [] d = 7 -> "7"
                [] d = 8 -> "8" [] d = 9 -> "9"

RECURSIVE NumToString(_)
NumToString(n) ==
    IF n < 10 THEN <<DigitOf(n)>>
    ELSE NumToString(n \div 10) \o <<DigitOf(n % 10)>>

\* String.prototype.padStart(len, "0")
RECURSIVE padStart(_, _)
padStart(s, len) == IF Len(s) >= len THEN s ELSE padStart(<<"0">> \o s, len)

\* media types
ImageJpeg == <<"i","m","a","g","e","/","j","p","e","g">>
VideoMp4 == <<"v","i","d","e","o","/","m","p","4">>
AppPdf == <<"a","p","p","l","i","c","a","t","i","o","n","/","p","d","f">>
ImagePrefix == <<"i","m","a","g","e","/">>
VideoPrefix == <<"v","i","d","e","o","/">>

\* getExtensionFromMime(mimeType): the lookup table, "" for any other type
getExtensionFromMime(mimeType) ==
    CASE mimeType = ImageJpeg -> <<".","j","p","g">>
      [] mimeType = <<"i","m","a","g","e","/","p","n","g">> -> <<".","p","n","g">>
      [] mimeType = <<"i","m","a","g","e","/","w","e","b","p">> -> <<".","w","e","b","p">>
      [] mimeType = <<"i","m","a","g","e","/","h","e","i","c">> -> <<".","h","e","i","c">>
      [] mimeType = <<"i","m","a","g","e","/","h","e","i","f">> -> <<".","h","e","i","f">>
      [] mimeType = <<"i","m","a","g","e","/","g","i","f">> -> <<".","g","i","f">>
      [] mimeType = VideoMp4 -> <<".","m","p","4">>
      [] mimeType = <<"v","i","d","e","o","/","q","u","i","c","k","t","i","m","e">> -> <<".","m","o","v">>
      [] mimeType = <<"v","i","d","e","o","/","w","e","b","m">> -> <<".","w","e","b","m">>
      [] OTHER -> <<>>

\* a prefix cut to the width of the padding
entryPrefix_lastThree(index) == padStart(NumToString((index + 1) % 1000), PadLen)

\* the prefix of an entry name: String(index + 1).padStart(3, "0")
entryPrefix(index) == padStart(NumToString(index + 1), PadLen)

\* a fallback that asks the content type first
fallbackExt_mimeFirst(upload) ==
    IF getExtensionFromMime(upload.mimeType) # <<>>
      THEN getExtensionFromMime(upload.mimeType)
      ELSE extname(upload.storagePath)

\* path.extname(upload.storagePath || "") || getExtensionFromMime(upload.mimeType)
fallbackExt(upload) ==
    IF extname(upload.storagePath) # <<>>
      THEN extname(upload.storagePath)
      ELSE getExtensionFromMime(upload.mimeType)

\* buildArchiveEntryName(upload, index)
buildArchiveEntryName(upload, index) ==
    LET prefix == entryPrefix(index)
        originalName == IF upload.originalName # <<>>
                          THEN upload.originalName
                          ELSE basename(upload.storagePath)
        safeName == sanitizeArchiveName(originalName)
    IN  IF extname(safeName) # <<>>
          THEN prefix \o <<"-">> \o safeName
          ELSE prefix \o <<"-">> \o safeName \o fallbackExt(upload)

---------------------------------------------------------------------------
(* Inputs *)

Requests == 1..MaxRequests
Exports == 1..MaxExports
Views == 1..MaxViews

\* the ids generateShortId can return, and the ids a request can name
GeneratedIds == {<<"a","1">>}
RequestIds == GeneratedIds \cup {<<"b","2">>}

\* the values crypto.randomBytes(16).toString("hex") can return, and the
\* tokens a request can carry
GeneratedTokens == {"t1"}
RequestTokens == GeneratedTokens \cup {"t0"}

EventNames == {<<>>, <<"w","e","d">>}

\* the file parts a multipart request can carry
FileInputs ==
    { [originalname |-> <<"p",".","j","p","g">>, mimetype |-> ImageJpeg, size |-> 1],
      [originalname |-> <<"d",".","p","d","f">>, mimetype |-> AppPdf, size |-> 1],
      [originalname |-> <<"p",".","j","p","g">>, mimetype |-> ImageJpeg,
       size |-> MAX_FILE_SIZE + 1] }

\* a file part whose name climbs into the directory of another event
ClimbingFile ==
    [originalname |-> <<".", ".", "/", "b", "2", "/", "x", ".", "j">>,
     mimetype |-> ImageJpeg, size |-> 1]

\* crypto.randomUUID(): a value no other call returns; the call is named by
\* the request that makes it, the file it is made for and its place in the code
randomUUID(site, r, k) == <<site>> \o NumToString(r) \o NumToString(k)

---------------------------------------------------------------------------
(* Metadata store *)

\* findEventById(eventId): the event, or NoEvent for null
NoEvent == [id |-> <<>>, eventName |-> <<>>, adminToken |-> "none"]

\* a lookup that falls back to some stored event when the id is unknown
findEventById_anyEvent(events, eventId) ==
    IF \E e \in events : e.id = eventId
      THEN CHOOSE e \in events : e.id = eventId
      ELSE IF events # {} THEN CHOOSE e \in events : TRUE ELSE NoEvent

findEventById(events, eventId) ==
    IF \E e \in events : e.id = eventId
      THEN CHOOSE e \in events : e.id = eventId
      ELSE NoEvent

\* an insert that loses the last record of the payload
insertUploadRecords_dropLast(uploads, records) ==
    IF records = <<>> THEN uploads
    ELSE uploads \o SubSeq(records, 1, Len(records) - 1)

\* an insert that writes the first record of the payload only
insertUploadRecords_firstOnly(uploads, records) ==
    IF records = <<>> THEN uploads ELSE uploads \o <<records[1]>>

\* a write of the payload over a snapshot read before the other writes
insertUploadRecords_overwrite(uploads, records) == records

\* insertUploadRecords(records), the store after a successful call: one
\* insert of the whole payload, or db.uploads.push(...records) and one write
insertUploadRecords(uploads, records) ==
    IF records = <<>> THEN uploads ELSE uploads \o records

\* Array.prototype.sort with (a, b) => b.uploadedAt.localeCompare(a.uploadedAt):
\* stable, descending by uploadedAt
RECURSIVE InsertDesc(_, _)
InsertDesc(sorted, r) ==
    IF sorted = <<>> THEN <<r>>
    ELSE IF Head(sorted).uploadedAt >= r.uploadedAt
           THEN <<Head(sorted)>> \o InsertDesc(Tail(sorted), r)
           ELSE <<r>> \o sorted

RECURSIVE SortDesc(_)
SortDesc(s) ==
    IF s = <<>> THEN <<>>
    ELSE InsertDesc(SortDesc(SubSeq(s, 1, Len(s) - 1)), s[Len(s)])

RECURSIVE FilterEvent(_, _)
FilterEvent(s, eventId) ==
    IF s = <<>> THEN <<>>
    ELSE IF Head(s).eventId = eventId
           THEN <<Head(s)>> \o FilterEvent(Tail(s), eventId)
           ELSE FilterEvent(Tail(s), eventId)

IsDescending(s) ==
    \A i \in 1..(Len(s) - 1) : s[i].uploadedAt >= s[i + 1].uploadedAt

\* the orders in which .order("uploaded_at", {ascending: false}) can return
\* a set of rows: a row with the greatest uploaded_at first, then the rest;
\* rows with equal uploaded_at come in any order
RECURSIVE RowOrders(_)
RowOrders(rows) ==
    IF rows = {} THEN {<<>>}
    ELSE UNION { {<<r>> \o t : t \in RowOrders(rows \ {r})}
                 : r \in {r \in rows : \A q \in rows : r.uploadedAt >= q.uploadedAt} }

OrderedDesc(s) == RowOrders({s[i] : i \in 1..Len(s)})

\* listUploadsForEvent(eventId): the lists the call can return
listUploadsForEvent(usingSupabase, uploads, eventId) ==
    IF usingSupabase
      THEN OrderedDesc(FilterEvent(uploads, eventId))
      ELSE {SortDesc(FilterEvent(uploads, eventId))}

---------------------------------------------------------------------------
(* Storage backend *)

USING_SUPABASE == backend = "supabase"

\* one directory for the files of all events
objectKey_flat(usingSupabase, eventId, storagePath) == storagePath

\* the key of the stored object of a record: path.join(UPLOADS_DIR, eventId,
\* storagePath) on disk, storagePath itself in the bucket
objectKey(usingSupabase, eventId, storagePath) ==
    IF usingSupabase THEN storagePath ELSE eventId \o <<"/">> \o storagePath

\* `${Date.now()}-${crypto.randomUUID()}${ext}`
generatedName(time, uuid, originalname) ==
    NumToString(time) \o <<"-">> \o uuid \o extname(originalname)

\* fileFilter(req, file, cb): TRUE when cb(null, true)
fileFilter(file) ==
    StartsWith(file.mimetype, ImagePrefix) \/ StartsWith(file.mimetype, VideoPrefix)

\* a check that accepts every token
tokenMatches_any(event, token) == TRUE

\* event.adminToken === token
tokenMatches(event, token) == event.adminToken = token

---------------------------------------------------------------------------
(* POST /api/events *)

\* createEventRecord: an id no event has yet and a random admin token
createEventRecord(events, eventId, eventName, adminToken) ==
    events \cup {[id |-> eventId, eventName |-> eventName, adminToken |-> adminToken]}

CreateEvent(eventId, eventName, adminToken) ==
    /\ Cardinality(dbEvents) < MaxEvents
    /\ IF eventName = <<>>
         THEN UNCHANGED dbEvents                       \* 400
         ELSE /\ \A e \in dbEvents : e.id # eventId
              /\ dbEvents' = createEventRecord(dbEvents, eventId, eventName, adminToken)
    /\ UNCHANGED <<backend, dbUploads, objects, now, reqs, exps, nameArgs, nameOut, views>>

---------------------------------------------------------------------------
(* POST /api/e/:eventId/upload *)

IdleRequest ==
    [pc |-> "idle", eventId |-> <<>>, files |-> <<>>, uploadedFiles |-> <<>>,
     uploadedAt |-> 0, uploadRecords |-> <<>>, createdStoragePaths |-> <<>>,
     index |-> 0, pending |-> {}, removeFailed |-> FALSE, status |-> 0,
     error |-> "", uploadedCount |-> 0, removeCalls |-> {}, failedRemoves |-> {}]

TotalFiles == LET RECURSIVE Sum(_)
                  Sum(r) == IF r = 0 THEN 0 ELSE Len(reqs[r].files) + Sum(r - 1)
              IN  Sum(MaxRequests)

\* a handler that records the client's file name as the storage path
uploadRecord_originalName(r, k, eventId, file, storagePath, uploadedAt) ==
    [id |-> randomUUID("r", r, k), eventId |-> eventId,
     originalName |-> file.originalname, storagePath |-> file.originalname,
     mimeType |-> file.mimetype, size |-> file.size, uploadedAt |-> uploadedAt]

\* the record the handler builds for a file
uploadRecord(r, k, eventId, file, storagePath, uploadedAt) ==
    [id |-> randomUUID("r", r, k), eventId |-> eventId,
     originalName |-> file.originalname, storagePath |-> storagePath,
     mimeType |-> file.mimetype, size |-> file.size, uploadedAt |-> uploadedAt]

\* lines 154-165: findEventById, then the multipart body is handed to multer
StartUpload(r, eventId) ==
    /\ reqs[r].pc = "idle"
    /\ \A r0 \in 1..(r - 1) : reqs[r0].pc # "idle"     \* requests are numbered as they arrive
    /\ IF findEventById(dbEvents, eventId) = NoEvent
         THEN reqs' = [reqs EXCEPT ![r].pc = "done", ![r].eventId = eventId,
                                   ![r].status = 404, ![r].error = "notfound"]
         ELSE reqs' = [reqs EXCEPT ![r].pc = "parse", ![r].eventId = eventId]
    /\ UNCHANGED <<backend, dbEvents, dbUploads, objects, now, exps, nameArgs, nameOut, views>>

\* multer, one file part of the body: the count limit, fileFilter, then the
\* storage engine (diskStorage writes the file while it is parsed,
\* memoryStorage buffers it) with the size limit cutting the stream
MulterFile(r, file) ==
    LET q == reqs[r]
        k == Len(q.uploadedFiles) + 1
        filename == generatedName(now, randomUUID("f", r, k), file.originalname)
        stored == [originalname |-> file.originalname, mimetype |-> file.mimetype,
                   size |-> file.size,
                   filename |-> IF USING_SUPABASE THEN <<>> ELSE filename]
    IN
    /\ q.pc = "parse"
    /\ TotalFiles < MaxTotalFiles \/ Len(q.files) >= MAX_FILES_PER_REQUEST
    /\ IF Len(q.files) >= MAX_FILES_PER_REQUEST
         THEN /\ reqs' = [reqs EXCEPT ![r].pc = "abort", ![r].error = "LIMIT_FILE_COUNT"]
              /\ UNCHANGED objects
         ELSE IF ~fileFilter(file)
         THEN /\ reqs' = [reqs EXCEPT ![r].pc = "abort", ![r].error = "fileFilter"]
              /\ UNCHANGED objects
         ELSE /\ objects' = IF USING_SUPABASE THEN objects
                            ELSE objects \cup {objectKey(FALSE, q.eventId, filename)}
              /\ IF file.size > MAX_FILE_SIZE
                   THEN reqs' = [reqs EXCEPT ![r].pc = "abort",
                                             ![r].error = "LIMIT_FILE_SIZE",
                                             ![r].uploadedFiles = Append(@, stored)]
                   ELSE reqs' = [reqs EXCEPT ![r].files = Append(@, stored),
                                             ![r].uploadedFiles = Append(@, stored)]
    /\ UNCHANGED <<backend, dbEvents, dbUploads, now, exps, nameArgs, nameOut, views>>

\* multer after an error: the files stored so far are removed, then the
\* callback of line 165 gets err and answers 400
MulterAbort(r) ==
    LET q == reqs[r] IN
    /\ q.pc = "abort"
    /\ objects' = IF USING_SUPABASE THEN objects
                  ELSE objects \ {objectKey(FALSE, q.eventId, q.uploadedFiles[i].filename)
                                    : i \in 1..Len(q.uploadedFiles)}
    /\ reqs' = [reqs EXCEPT ![r].pc = "done", ![r].status = 400]
    /\ UNCHANGED <<backend, dbEvents, dbUploads, now, exps, nameArgs, nameOut, views>>

\* lines 213-224: the records of the local backend
localRecords(r, eventId, files, uploadedAt) ==
    [k \in 1..Len(files) |->
        uploadRecord(r, k, eventId, files[k], files[k].filename, uploadedAt)]

\* the callback of line 165 without err.  Local backend: the records are
\* built and insertUploadRecords runs to its end without a suspension.
\* Supabase: the upload loop starts.
MulterDone(r, commitOk) ==
    LET q == reqs[r]
        records == localRecords(r, q.eventId, q.files, now)
    IN
    /\ q.pc = "parse"
    /\ IF q.files = <<>>
         THEN /\ reqs' = [reqs EXCEPT ![r].pc = "done", ![r].status = 400,
                                      ![r].error = "empty"]
              /\ UNCHANGED dbUploads
         ELSE IF USING_SUPABASE
         THEN /\ reqs' = [reqs EXCEPT ![r].pc = "upload", ![r].uploadedAt = now,
                                      ![r].index = 1]
              /\ UNCHANGED dbUploads
         ELSE IF commitOk
         THEN /\ dbUploads' = insertUploadRecords(dbUploads, records)
              /\ reqs' = [reqs EXCEPT ![r].pc = "done", ![r].uploadedAt = now,
                                      ![r].uploadRecords = records,
                                      ![r].status = 201,
                                      ![r].uploadedCount = Len(q.files)]
         ELSE /\ UNCHANGED dbUploads
              /\ reqs' = [reqs EXCEPT ![r].pc = "done", ![r].uploadedAt = now,
                                      ![r].uploadRecords = records,
                                      ![r].status = 500, ![r].error = "commit"]
    /\ UNCHANGED <<backend, dbEvents, objects, now, exps, nameArgs, nameOut, views>>

\* a catch that answers 500 without removing what was created
afterThrow_noCleanup(q, error) ==
    [q EXCEPT !.pc = "done", !.error = error, !.status = 500]

\* the catch of line 229: when something was created, one remove call per
\* created path is issued (the map of line 233), else 500 at once
afterThrow(q, error) ==
    IF q.createdStoragePaths # <<>>
      THEN [q EXCEPT !.pc = "compensate", !.error = error,
                     !.pending = {q.createdStoragePaths[i]
                                    : i \in 1..Len(q.createdStoragePaths)},
                     !.removeCalls = {q.createdStoragePaths[i]
                                        : i \in 1..Len(q.createdStoragePaths)}]
      ELSE [q EXCEPT !.pc = "done", !.error = error, !.status = 500]

\* Promise.all for Promise.allSettled: the first failed removal rejects, and
\* its error is the one that leaves the handler
afterRemove_reject(q, storagePath, removeOk) ==
    IF removeOk
      THEN [q EXCEPT !.pending = @ \ {storagePath},
                     !.pc = IF q.pending = {storagePath} THEN "done" ELSE @,
                     !.status = IF q.pending = {storagePath} THEN 500 ELSE @]
      ELSE [q EXCEPT !.pending = {}, !.removeFailed = TRUE,
                     !.failedRemoves = @ \cup {storagePath},
                     !.pc = "done", !.status = 500, !.error = "remove"]

\* Promise.allSettled of line 232: a remove call settles, fulfilled or
\* rejected; when the last one has settled the handler answers 500 with the
\* message of the error it caught
afterRemove(q, storagePath, removeOk) ==
    [q EXCEPT !.pending = @ \ {storagePath},
              !.removeFailed = @ \/ ~removeOk,
              !.failedRemoves = IF removeOk THEN @ ELSE @ \cup {storagePath},
              !.pc = IF q.pending = {storagePath} THEN "done" ELSE @,
              !.status = IF q.pending = {storagePath} THEN 500 ELSE @]

\* lines 184-211, one turn of the loop: the upload of one file and, when it
\* succeeded, the push of its path and of its record
SupabaseUpload(r, uploadOk) ==
    LET q == reqs[r]
        file == q.files[q.index]
        storagePath == q.eventId \o <<"/">> \o
                       generatedName(now, randomUUID("f", r, q.index), file.originalname)
        record == uploadRecord(r, q.index, q.eventId, file, storagePath, q.uploadedAt)
    IN
    /\ q.pc = "upload"
    /\ IF uploadOk
         THEN /\ objects' = objects \cup {objectKey(TRUE, q.eventId, storagePath)}
              /\ reqs' = [reqs EXCEPT
                    ![r].createdStoragePaths = Append(@, storagePath),
                    ![r].uploadRecords = Append(@, record),
                    ![r].index = @ + 1,
                    ![r].pc = IF q.index = Len(q.files) THEN "commit" ELSE "upload"]
         ELSE /\ UNCHANGED objects
              /\ reqs' = [reqs EXCEPT ![r] = afterThrow(q, "upload")]
    /\ UNCHANGED <<backend, dbEvents, dbUploads, now, exps, nameArgs, nameOut, views>>

\* lines 227-228: the insert of the whole batch and the 201 answer
SupabaseCommit(r, commitOk) ==
    LET q == reqs[r] IN
    /\ q.pc = "commit"
    /\ IF commitOk
         THEN /\ dbUploads' = insertUploadRecords(dbUploads, q.uploadRecords)
              /\ reqs' = [reqs EXCEPT ![r].pc = "done", ![r].status = 201,
                                      ![r].uploadedCount = Len(q.files)]
         ELSE /\ UNCHANGED dbUploads
              /\ reqs' = [reqs EXCEPT ![r] = afterThrow(q, "commit")]
    /\ UNCHANGED <<backend, dbEvents, objects, now, exps, nameArgs, nameOut, views>>

\* lines 232-240: one of the remove calls of Promise.allSettled settles;
\* after the last one the handler answers 500
SupabaseRemove(r, storagePath, removeOk) ==
    LET q == reqs[r] IN
    /\ q.pc = "compensate"
    /\ storagePath \in q.pending
    /\ objects' = IF removeOk
                    THEN objects \ {objectKey(TRUE, q.eventId, storagePath)}
                    ELSE objects
    /\ reqs' = [reqs EXCEPT ![r] = afterRemove(q, storagePath, removeOk)]
    /\ UNCHANGED <<backend, dbEvents, dbUploads, now, exps, nameArgs, nameOut, views>>

\* time passes
Tick ==
    /\ now < MaxClock
    /\ now' = now + 1
    /\ UNCHANGED <<backend, dbEvents, dbUploads, objects, reqs, exps, nameArgs, nameOut, views>>

---------------------------------------------------------------------------
(* GET /admin/:eventId/download.zip *)

IdleExport ==
    [pc |-> "idle", eventId |-> <<>>, uploads |-> <<>>, index |-> 0,
     entries |-> <<>>, finalizeCalled |-> FALSE, headersSent |-> FALSE,
     status |-> "none", error |-> "", token |-> "none",
     closed |-> FALSE, consumed |-> 0, contentType |-> "none", archive |-> FALSE]

\* a catch that swallows the error, so that the archive is finalized
exportCatch_swallow(e, error, sent) ==
    [e EXCEPT !.pc = "finalize", !.error = error]

\* the catch of line 334 after a throw of the append loop: res.destroy when
\* the headers are sent, else next(error) and the 500 of the error handler
exportCatch(e, error, sent) ==
    [e EXCEPT !.pc = "done", !.error = error, !.headersSent = sent,
              !.status = IF sent THEN "destroyed" ELSE "500"]

\* an entry of the archive: its name and the object its bytes come from
archiveEntry(usingSupabase, item, index) ==
    [name |-> buildArchiveEntryName(item, index),
     source |-> objectKey(usingSupabase, item.eventId, item.storagePath)]

\* appendLocalUploadsToArchive(archive, eventId, uploads), from index on:
\* the entries it appends; a record whose file does not exist is passed over
RECURSIVE appendLocalFrom(_, _, _, _)
appendLocalFrom(stored, eventId, uploads, index) ==
    IF index >= Len(uploads) THEN <<>>
    ELSE LET item == uploads[index + 1] IN
         IF objectKey(FALSE, eventId, item.storagePath) \notin stored
           THEN appendLocalFrom(stored, eventId, uploads, index + 1)
           ELSE <<[name |-> buildArchiveEntryName(item, index),
                   source |-> objectKey(FALSE, eventId, item.storagePath)]>>
                \o appendLocalFrom(stored, eventId, uploads, index + 1)

\* a loop that ends at the first missing file (break for continue)
RECURSIVE appendLocalUntilMissing(_, _, _, _)
appendLocalUntilMissing(stored, eventId, uploads, index) ==
    IF index >= Len(uploads) THEN <<>>
    ELSE LET item == uploads[index + 1] IN
         IF objectKey(FALSE, eventId, item.storagePath) \notin stored
           THEN <<>>
           ELSE <<[name |-> buildArchiveEntryName(item, index),
                   source |-> objectKey(FALSE, eventId, item.storagePath)]>>
                \o appendLocalUntilMissing(stored, eventId, uploads, index + 1)

appendLocalUploadsToArchive_break(stored, eventId, uploads) ==
    appendLocalUntilMissing(stored, eventId, uploads, 0)

\* a loop that numbers the entries by their place in the archive
appendLocalUploadsToArchive_renumber(stored, eventId, uploads) ==
    LET made == appendLocalFrom(stored, eventId, uploads, 0)
        itemOf(k) == CHOOSE item \in {uploads[i] : i \in 1..Len(uploads)} :
                        objectKey(FALSE, eventId, item.storagePath) = made[k].source
    IN  [k \in 1..Len(made) |->
            [name |-> buildArchiveEntryName(itemOf(k), k - 1),
             source |-> made[k].source]]

appendLocalUploadsToArchive(stored, eventId, uploads) ==
    appendLocalFrom(stored, eventId, uploads, 0)

\* an empty check that never answers 404
noUploads_never(uploads) == FALSE

\* !uploads.length
noUploads(uploads) == Len(uploads) = 0

\* lines 284-331: event and token checks, the listing, the empty check, then
\* the zip headers, the archive and the append function; on the local
\* backend the append loop runs in the same turn
StartExport(x, eventId, token, uploads) ==
    LET event == findEventById(dbEvents, eventId) IN
    /\ exps[x].pc = "idle"
    /\ \A x0 \in 1..(x - 1) : exps[x0].pc # "idle"     \* exports are numbered as they arrive
    /\ uploads \in listUploadsForEvent(USING_SUPABASE, dbUploads, eventId)
    /\ IF event = NoEvent
         THEN exps' = [exps EXCEPT ![x].pc = "done", ![x].eventId = eventId, ![x].token = token,
                                   ![x].status = "404"]
         ELSE IF ~tokenMatches(event, token)
         THEN exps' = [exps EXCEPT ![x].pc = "done", ![x].eventId = eventId, ![x].token = token,
                                   ![x].status = "403"]
         ELSE IF noUploads(uploads)
         THEN exps' = [exps EXCEPT ![x].pc = "done", ![x].eventId = eventId, ![x].token = token,
                                   ![x].status = "404"]
         ELSE IF USING_SUPABASE
         THEN exps' = [exps EXCEPT ![x].pc = "append", ![x].eventId = eventId, ![x].token = token,
                                   ![x].contentType = "application/zip",
                                   ![x].archive = TRUE,
                                   ![x].uploads = uploads]
         ELSE exps' = [exps EXCEPT ![x].pc = "finalize", ![x].eventId = eventId, ![x].token = token,
                                   ![x].contentType = "application/zip",
                                   ![x].archive = TRUE,
                                   ![x].uploads = uploads,
                                   ![x].index = Len(uploads),
                                   ![x].entries = appendLocalUploadsToArchive(
                                                     objects, eventId, uploads)]
    /\ UNCHANGED <<backend, dbEvents, dbUploads, objects, now, reqs, nameArgs, nameOut, views>>

\* appendSupabaseUploadsToArchive, one turn of the loop: createSignedUrl,
\* fetch, archive.append.  A throw leaves the handler through the catch of
\* line 334: res.destroy when bytes of earlier entries were already sent,
\* else the error handler answers 500.
SupabaseAppend(x, outcome, sent) ==
    LET e == exps[x]
        item == e.uploads[e.index + 1]
    IN
    /\ e.pc = "append"
    /\ outcome = "ok" => objectKey(TRUE, item.eventId, item.storagePath) \in objects
    /\ sent => e.entries # <<>>
    /\ (outcome # "ok" /\ e.consumed > 0) => sent
    /\ IF outcome = "ok"
         THEN /\ sent = e.headersSent
              /\ exps' = [exps EXCEPT
                    ![x].entries = Append(@, archiveEntry(TRUE, item, e.index)),
                    ![x].index = @ + 1,
                    ![x].pc = IF e.index + 1 = Len(e.uploads) THEN "finalize" ELSE "append"]
         ELSE exps' = [exps EXCEPT ![x] = exportCatch(e, outcome, sent)]
    /\ UNCHANGED <<backend, dbEvents, dbUploads, objects, now, reqs, nameArgs, nameOut, views>>

\* line 333: archive.finalize() ends the archive and the response, after
\* the entries still queued went through; a response the client has closed
\* gets nothing more
FinalizeExport(x) ==
    /\ exps[x].pc = "finalize"
    /\ exps' = [exps EXCEPT ![x].pc = "done", ![x].finalizeCalled = TRUE,
                            ![x].headersSent = TRUE,
                            ![x].consumed = IF exps[x].closed THEN @
                                            ELSE Len(exps[x].entries),
                            ![x].status = IF exps[x].closed THEN "closed" ELSE "zip"]
    /\ UNCHANGED <<backend, dbEvents, dbUploads, objects, now, reqs, nameArgs, nameOut, views>>

\* the archive writer takes the next queued entry: it reads the entry's source
\* (on disk the file is opened now) and writes it to the response, as long
\* as the response takes data (archive.pipe(res), line 325)
ArchiveConsume(x) ==
    /\ exps[x].pc \in {"append", "finalize"}
    /\ ~exps[x].closed
    /\ exps[x].consumed < Len(exps[x].entries)
    /\ exps' = [exps EXCEPT ![x].consumed = @ + 1]
    /\ UNCHANGED <<backend, dbEvents, dbUploads, objects, now, reqs, nameArgs, nameOut, views>>

\* the client closes the connection while the export runs: the response is
\* closed and the pipe stops; the handler has no listener for it
ClientDisconnect(x) ==
    /\ exps[x].pc \in {"append", "finalize"}
    /\ ~exps[x].closed
    /\ exps' = [exps EXCEPT ![x].closed = TRUE]
    /\ UNCHANGED <<backend, dbEvents, dbUploads, objects, now, reqs, nameArgs, nameOut, views>>

\* a stored object disappears without the program's doing (a file deleted
\* from uploads/, an object deleted from the bucket)
LoseObject(key) ==
    /\ key \in objects
    /\ objects' = objects \ {key}
    /\ UNCHANGED <<backend, dbEvents, dbUploads, now, reqs, exps, nameArgs, nameOut, views>>

---------------------------------------------------------------------------
(* GET /e/:eventId, and the local db file when it cannot be read *)

\* readLocalDb(): the parsed file; when readFileSync or JSON.parse throws, or
\* events/uploads is no array, the catch writes the empty db over the file
\* and returns it
readLocalDb(events, uploads, readable) ==
    IF readable THEN [events |-> events, uploads |-> uploads]
    ELSE [events |-> {}, uploads |-> <<>>]

\* lines 137-151: findEventById and the page (or 404); on the local backend
\* findEventById starts with readLocalDb, on Supabase a failed query throws
\* and the data is left as it is
GetEventPage(eventId, readable) ==
    LET db == readLocalDb(dbEvents, dbUploads, readable) IN
    /\ IF USING_SUPABASE
         THEN UNCHANGED <<dbEvents, dbUploads>>
         ELSE /\ dbEvents' = db.events
              /\ dbUploads' = db.uploads
    /\ UNCHANGED <<backend, objects, now, reqs, exps, nameArgs, nameOut, views>>

---------------------------------------------------------------------------
(* GET /admin/file/:eventId/:fileName *)

IdleView ==
    [pc |-> "idle", kind |-> "none", eventId |-> <<>>, token |-> "none",
     status |-> 0, sent |-> <<>>, uploads |-> <<>>, failed |-> {}, out |-> <<>>]

\* the file names a request can carry: the name of a stored file, a path
\* that climbs out of the directory to a stored file, a name no file has
FileNames ==
    {basename(key) : key \in objects}
      \cup {<<".", ".", "/">> \o key : key \in objects}
      \cup {<<"x">>}

\* lines 343-365: 404 on Supabase; the event and the token are checked
\* before the file system is looked at; res.sendFile reads the file
FileRequest(v, eventId, fileName, token) ==
    LET event == findEventById(dbEvents, eventId)
        name == basename(fileName)
        filePath == objectKey(FALSE, eventId, name)
        asked == [views[v] EXCEPT !.pc = "done", !.kind = "file", !.eventId = eventId,
                                  !.token = token]
    IN
    /\ views[v].pc = "idle"
    /\ \A v0 \in 1..(v - 1) : views[v0].pc # "idle"
    /\ IF USING_SUPABASE
         THEN views' = [views EXCEPT ![v] = [asked EXCEPT !.status = 404]]
         ELSE IF event = NoEvent \/ ~tokenMatches(event, token)
         THEN views' = [views EXCEPT ![v] = [asked EXCEPT !.status = 403]]
         ELSE IF filePath \notin objects
         THEN views' = [views EXCEPT ![v] = [asked EXCEPT !.status = 404]]
         ELSE views' = [views EXCEPT ![v] = [asked EXCEPT !.status = 200,
                                                          !.sent = filePath]]
    /\ UNCHANGED <<backend, dbEvents, dbUploads, objects, now, reqs, exps, nameArgs, nameOut>>

---------------------------------------------------------------------------
(* GET /admin/:eventId *)

\* encodeURIComponent: a reserved character becomes its percent escape
encodeChar(c) ==
    CASE c = "/" -> <<"%", "2", "F">>
      [] c = "?" -> <<"%", "3", "F">>
      [] c = "=" -> <<"%", "3", "D">>
      [] c = "&" -> <<"%", "2", "6">>
      [] c = "%" -> <<"%", "2", "5">>
      [] c = " " -> <<"%", "2", "0">>
      [] OTHER -> <<c>>

RECURSIVE encodeURIComponent(_)
encodeURIComponent(str) ==
    IF str = <<>> THEN <<>>
    ELSE encodeChar(Head(str)) \o encodeURIComponent(Tail(str))

AdminFile == <<"/", "a", "d", "m", "i", "n", "/", "f", "i", "l", "e", "/">>
TokenQuery == <<"?", "t", "o", "k", "e", "n", "=">>

\* the URL the bucket signs for a path: it names the path it gives access to
signedUrlOf(path) == <<"s", "i", "g", "n", "/">> \o path

\* storage.createSignedUrls(paths, ttl) without error: one entry per path, in
\* the order of the paths; the entry of a path that could not be signed has
\* an error and no signedUrl
createSignedUrls(paths, failed) ==
    [i \in 1..Len(paths) |->
        [path |-> paths[i],
         signedUrl |-> IF i \in failed THEN <<>> ELSE signedUrlOf(paths[i])]]

\* the entries of data that carry a signed URL
RECURSIVE signedOnly(_)
signedOnly(data) ==
    IF data = <<>> THEN <<>>
    ELSE IF Head(data).signedUrl = <<>> THEN signedOnly(Tail(data))
    ELSE <<Head(data)>> \o signedOnly(Tail(data))

\* a mapping that takes the index-th of the URLs that were signed
attachViewUrls_compact(usingSupabase, uploads, token, data) ==
    IF uploads = <<>> THEN uploads
    ELSE IF usingSupabase
      THEN [index \in 1..Len(uploads) |->
              uploads[index] @@
              [viewUrl |-> IF index <= Len(signedOnly(data))
                             THEN signedOnly(data)[index].signedUrl ELSE <<>>]]
      ELSE [index \in 1..Len(uploads) |->
              uploads[index] @@
              [viewUrl |-> AdminFile \o encodeURIComponent(uploads[index].eventId)
                             \o <<"/">> \o encodeURIComponent(uploads[index].storagePath)
                             \o TokenQuery \o encodeURIComponent(<<token>>)]]

\* attachViewUrls(uploads, token) after createSignedUrls returned data:
\* viewUrl is data?.[index]?.signedUrl || "" on Supabase and the URL of the
\* file endpoint on disk
attachViewUrls(usingSupabase, uploads, token, data) ==
    IF uploads = <<>> THEN uploads
    ELSE IF usingSupabase
      THEN [index \in 1..Len(uploads) |->
              uploads[index] @@
              [viewUrl |-> IF index <= Len(data) THEN data[index].signedUrl ELSE <<>>]]
      ELSE [index \in 1..Len(uploads) |->
              uploads[index] @@
              [viewUrl |-> AdminFile \o encodeURIComponent(uploads[index].eventId)
                             \o <<"/">> \o encodeURIComponent(uploads[index].storagePath)
                             \o TokenQuery \o encodeURIComponent(<<token>>)]]

\* lines 249-281: the event and token checks, the listing, attachViewUrls and
\* the page; an error of createSignedUrls as a whole is thrown to the error
\* handler
AdminPage(v, eventId, token, uploads, signOk, failed) ==
    LET event == findEventById(dbEvents, eventId)
        paths == [i \in 1..Len(uploads) |-> uploads[i].storagePath]
        asked == [views[v] EXCEPT !.pc = "done", !.kind = "page", !.eventId = eventId,
                                  !.token = token]
    IN
    /\ views[v].pc = "idle"
    /\ \A v0 \in 1..(v - 1) : views[v0].pc # "idle"
    /\ uploads \in listUploadsForEvent(USING_SUPABASE, dbUploads, eventId)
    /\ failed \subseteq 1..Len(uploads)
    /\ (~USING_SUPABASE \/ ~signOk) => failed = {}
    /\ IF event = NoEvent
         THEN views' = [views EXCEPT ![v] = [asked EXCEPT !.status = 404]]
         ELSE IF ~tokenMatches(event, token)
         THEN views' = [views EXCEPT ![v] = [asked EXCEPT !.status = 403]]
         ELSE IF USING_SUPABASE /\ uploads # <<>> /\ ~signOk
         THEN views' = [views EXCEPT ![v] = [asked EXCEPT !.status = 500,
                                                          !.uploads = uploads]]
         ELSE views' = [views EXCEPT ![v] =
                          [asked EXCEPT !.status = 200, !.uploads = uploads,
                                        !.failed = failed,
                                        !.out = attachViewUrls(USING_SUPABASE, uploads, token,
                                                   createSignedUrls(paths, failed))]]
    /\ UNCHANGED <<backend, dbEvents, dbUploads, objects, now, reqs, exps, nameArgs, nameOut>>

---------------------------------------------------------------------------
(* Calls of buildArchiveEntryName within one export *)

Pow10(k) == IF k = 0 THEN 1 ELSE IF k = 1 THEN 10 ELSE IF k = 2 THEN 100
            ELSE IF k = 3 THEN 1000 ELSE 10000

\* indexes around the places where index + 1 gets one more digit
NameIndexes ==
    UNION { {n \in (Pow10(k) - 1 - IdxWindow)..(Pow10(k) - 1 + IdxWindow) : n >= 0}
            : k \in 0..MaxPow }

NameInputs ==
    { <<>>,
      <<"p",".","j","p","g">>,
      <<"c","l","i","p">>,
      <<"h","e_acute","l","l","o"," ","w","!","!",".","P","N","G">>,
      <<"1","-","a">>,
      <<"-">>,
      <<".">>,
      <<"sharp_s">> }

NameUploads ==
    [originalName : NameInputs,
     storagePath : { <<"a","1","/","0","-","f","1","1",".","j">>,
                     <<"a","1","/","0","-","f","1","1">> },
     mimeType : {VideoMp4, AppPdf}]

\* one more call of buildArchiveEntryName, at an index not used before
BuildName(upload, index) ==
    /\ Len(nameArgs) < 2
    /\ \A i \in 1..Len(nameArgs) : nameArgs[i].index # index
    /\ nameArgs' = Append(nameArgs, [upload |-> upload, index |-> index])
    /\ nameOut' = Append(nameOut, buildArchiveEntryName(upload, index))
    /\ UNCHANGED <<backend, dbEvents, dbUploads, objects, now, reqs, exps, views>>

---------------------------------------------------------------------------
(* Specifications *)

Init ==
    /\ backend \in {"local", "supabase"}
    /\ dbEvents = {}
    /\ dbUploads = <<>>
    /\ objects = {}
    /\ now = 0
    /\ reqs = [r \in Requests |-> IdleRequest]
    /\ exps = [x \in Exports |-> IdleExport]
    /\ nameArgs = <<>>
    /\ nameOut = <<>>
    /\ views = [v \in Views |-> IdleView]

Program ==
    \/ \E id \in GeneratedIds, n \in EventNames, t \in GeneratedTokens : CreateEvent(id, n, t)
    \/ \E r \in Requests, id \in RequestIds : StartUpload(r, id)
    \/ \E r \in Requests, f \in FileInputs : MulterFile(r, f)
    \/ \E r \in Requests : MulterAbort(r)
    \/ \E r \in Requests, ok \in BOOLEAN : MulterDone(r, ok)
    \/ \E r \in Requests, ok \in BOOLEAN : SupabaseUpload(r, ok)
    \/ \E r \in Requests, ok \in BOOLEAN : SupabaseCommit(r, ok)
    \/ \E r \in Requests, ok \in BOOLEAN :
          \E p \in reqs[r].pending : SupabaseRemove(r, p, ok)
    \/ \E x \in Exports, id \in RequestIds, t \in RequestTokens :
          \E u \in listUploadsForEvent(USING_SUPABASE, dbUploads, id) :
             StartExport(x, id, t, u)
    \/ \E x \in Exports, o \in {"ok", "signError", "fetchError"}, sent \in BOOLEAN :
          SupabaseAppend(x, o, sent)
    \/ \E x \in Exports : FinalizeExport(x)
    \/ Tick

Next == Program

Spec == Init /\ [][Next]_vars

\* event creation and the upload handler
NextUploads ==
    \/ \E id \in GeneratedIds, n \in EventNames, t \in GeneratedTokens : CreateEvent(id, n, t)
    \/ \E r \in Requests, id \in RequestIds : StartUpload(r, id)
    \/ \E r \in Requests, f \in FileInputs : MulterFile(r, f)
    \/ \E r \in Requests : MulterAbort(r)
    \/ \E r \in Requests, ok \in BOOLEAN : MulterDone(r, ok)
    \/ \E r \in Requests, ok \in BOOLEAN : SupabaseUpload(r, ok)
    \/ \E r \in Requests, ok \in BOOLEAN : SupabaseCommit(r, ok)
    \/ \E r \in Requests, ok \in BOOLEAN :
          \E p \in reqs[r].pending : SupabaseRemove(r, p, ok)
    \/ Tick

\* the program in an environment where stored objects can disappear
NextEnv ==
    \/ Program
    \/ \E key \in objects : LoseObject(key)

SpecEnv == Init /\ [][NextEnv]_vars

\* the program with reads of the local db file that can fail
NextFault ==
    \/ Program
    \/ \E id \in RequestIds, readable \in BOOLEAN : GetEventPage(id, readable)

SpecFault == Init /\ [][NextFault]_vars

\* the program with two events, and uploads of files whose names climb
NextEvents ==
    \/ \E id \in GeneratedIds, n \in EventNames, t \in GeneratedTokens : CreateEvent(id, n, t)
    \/ \E id \in RequestIds \ GeneratedIds, n \in EventNames,
          t \in RequestTokens \ GeneratedTokens : CreateEvent(id, n, t)
    \/ \E r \in Requests, id \in RequestIds : StartUpload(r, id)
    \/ \E r \in Requests : MulterFile(r, ClimbingFile)
    \/ \E r \in Requests : MulterAbort(r)
    \/ \E r \in Requests, ok \in BOOLEAN : MulterDone(r, ok)
    \/ \E r \in Requests, ok \in BOOLEAN : SupabaseUpload(r, ok)
    \/ \E r \in Requests, ok \in BOOLEAN : SupabaseCommit(r, ok)
    \/ \E r \in Requests, ok \in BOOLEAN :
          \E p \in reqs[r].pending : SupabaseRemove(r, p, ok)
    \/ \E x \in Exports, id \in RequestIds, t \in RequestTokens :
          \E u \in listUploadsForEvent(USING_SUPABASE, dbUploads, id) :
             StartExport(x, id, t, u)
    \/ \E x \in Exports, o \in {"ok", "signError", "fetchError"}, sent \in BOOLEAN :
          SupabaseAppend(x, o, sent)
    \/ \E x \in Exports : FinalizeExport(x)
    \/ Tick

SpecEvents == Init /\ [][NextEvents]_vars

\* the program with the archive writer and the client of an export
NextStream ==
    \/ Program
    \/ \E x \in Exports : ArchiveConsume(x)
    \/ \E x \in Exports : ClientDisconnect(x)

SpecStream == Init /\ [][NextStream]_vars

\* the program with requests for single files
NextFiles ==
    \/ Program
    \/ \E v \in Views, id \in RequestIds, t \in RequestTokens :
          \E name \in FileNames : FileRequest(v, id, name, t)

SpecFiles == Init /\ [][NextFiles]_vars

\* event creation and uploads, with requests for the admin page
NextPages ==
    \/ NextUploads
    \/ \E v \in Views, id \in RequestIds, t \in RequestTokens, signOk \in BOOLEAN :
          \E u \in listUploadsForEvent(USING_SUPABASE, dbUploads, id) :
             \E failed \in SUBSET (1..Len(u)) : AdminPage(v, id, t, u, signOk, failed)

SpecPages == Init /\ [][NextPages]_vars

\* calls of the pure function buildArchiveEntryName
NextNames == \E u \in NameUploads, i \in NameIndexes : BuildName(u, i)

InitNames == Init /\ backend = "local"

SpecNames == InitNames /\ [][NextNames]_vars

---------------------------------------------------------------------------
(* Properties of the upload handler *)

\* the key of the stored object a record refers to
recordKey(rec) == objectKey(USING_SUPABASE, rec.eventId, rec.storagePath)

\* the keys of the objects written to the backend for the batch of a request:
\* the files multer stored on disk, or the paths uploaded to the bucket
batchKeys(q) ==
    IF USING_SUPABASE
      THEN {q.createdStoragePaths[i] : i \in 1..Len(q.createdStoragePaths)}
      ELSE {objectKey(FALSE, q.eventId, q.uploadedFiles[i].filename)
              : i \in 1..Len(q.uploadedFiles)}

batchIds(q) == {q.uploadRecords[i].id : i \in 1..Len(q.uploadRecords)}

storedIds == {dbUploads[i].id : i \in 1..Len(dbUploads)}

\* C1: metadata is the second phase of the write.  Whenever a step commits
\* records to the metadata store, the stored object of each of them was
\* already written, on both backends.
C1_MetadataSecondPhase ==
    [][\A i \in 1..Len(dbUploads') :
          i > Len(dbUploads) => recordKey(dbUploads'[i]) \in objects]_vars

\* a batch of two or more files has been committed on the remote backend
C1_Witness ==
    /\ USING_SUPABASE
    /\ \E r \in Requests : reqs[r].status = 201 /\ Len(reqs[r].uploadRecords) >= 2
                           /\ batchIds(reqs[r]) \subseteq storedIds

\* C2: compensation completeness.  When the metadata commit of a batch has
\* failed and no remove call failed, then once the request has completed no
\* object written for the batch is in the backend and no record of the batch
\* is in the metadata store, on either backend.
C2_CompensationComplete ==
    \A r \in Requests :
        (reqs[r].pc = "done" /\ reqs[r].error = "commit" /\ ~reqs[r].removeFailed)
        => /\ batchKeys(reqs[r]) \cap objects = {}
           /\ batchIds(reqs[r]) \cap storedIds = {}

\* C3: a batch that fails validation (content type, file count, file size)
\* is rejected before any storage write begins: no object of the batch has
\* been written to the backend and no record of it is committed.
C3_RejectedBeforeAnyWrite ==
    \A r \in Requests :
        reqs[r].error \in {"fileFilter", "LIMIT_FILE_COUNT", "LIMIT_FILE_SIZE"}
        => /\ \A i \in 1..Len(reqs[r].uploadedFiles) :
                 reqs[r].uploadedFiles[i].filename = <<>>
           /\ reqs[r].uploadRecords = <<>>
           /\ batchIds(reqs[r]) \cap storedIds = {}

\* C4: for a valid batch of n files (1 <= n <= max) whose writes and commit
\* succeeded, the request reports n, and every listing of the event made
\* afterwards holds exactly n records of the batch, one per file, with
\* distinct storage references whose objects are in the backend.
C4_AcceptedBatchListed ==
    \A r \in Requests :
        reqs[r].status = 201 =>
        LET q == reqs[r]
            n == Len(q.files)
        IN  /\ n \in 1..MAX_FILES_PER_REQUEST
            /\ q.uploadedCount = n
            /\ Len(q.uploadRecords) = n
            /\ \A L \in listUploadsForEvent(USING_SUPABASE, dbUploads, q.eventId) :
                 LET mine == {i \in 1..Len(L) : L[i].id \in batchIds(q)} IN
                 /\ Cardinality(mine) = n
                 /\ \A k \in 1..n :
                      /\ q.uploadRecords[k].originalName = q.files[k].originalname
                      /\ Cardinality({i \in mine : L[i] = q.uploadRecords[k]}) = 1
                 /\ \A i, j \in mine : i # j => L[i].storagePath # L[j].storagePath
                 /\ \A i \in mine : recordKey(L[i]) \in objects

\* a batch of the maximum size has been accepted
C4_Witness ==
    \E r \in Requests :
        /\ reqs[r].status = 201
        /\ Len(reqs[r].files) = MAX_FILES_PER_REQUEST
        /\ batchIds(reqs[r]) \subseteq storedIds

\* the listings an observer holds or can get now: the list an export took
\* and the lists listUploadsForEvent can return in this state
observableListings ==
    {exps[x].uploads : x \in Exports}
    \cup UNION {listUploadsForEvent(USING_SUPABASE, dbUploads, id) : id \in RequestIds}

\* C5: the commit of a batch is indivisible.  At any point of any
\* interleaving, a listing holds all records of a batch or none of them.
C5_CommitIndivisible ==
    \A r \in Requests : \A L \in observableListings :
        LET seen == {i \in 1..Len(L) : L[i].id \in batchIds(reqs[r])}
        IN  seen = {} \/ Cardinality(seen) = Len(reqs[r].files)

\* an export holds a listing with a whole batch of two records while another
\* upload request is between its writes and its commit
C5_Witness ==
    \E x \in Exports, r1, r2 \in Requests :
        /\ r1 # r2
        /\ Len(reqs[r1].files) >= 2
        /\ batchIds(reqs[r1]) \subseteq {exps[x].uploads[i].id : i \in 1..Len(exps[x].uploads)}
        /\ reqs[r2].pc = "commit"
        /\ batchIds(reqs[r2]) # {}

---------------------------------------------------------------------------
(* Properties of the export *)

\* n < 1000 written with three digits
ThreeDigits(n) == <<DigitOf(n \div 100), DigitOf((n \div 10) % 10), DigitOf(n % 10)>>

\* C6: when a remote export fails to resolve the object of the record at
\* index k, the export is aborted: the archive holds the entries of the
\* records before k and no other, archive.finalize is never called, and the
\* response ends as an error (500) or a destroyed stream.
C6_RemoteExportAborts ==
    \A x \in Exports :
        exps[x].error # "" =>
        LET e == exps[x] IN
        /\ e.index < Len(e.uploads)
        /\ Len(e.entries) = e.index
        /\ \A j \in 1..Len(e.entries) : e.entries[j].source = recordKey(e.uploads[j])
        /\ ~e.finalizeCalled
        /\ e.pc = "done"
        /\ e.status \in {"500", "destroyed"}

\* a remote export failed at its second record, after bytes were sent
C6_Witness ==
    \E x \in Exports :
        /\ USING_SUPABASE
        /\ exps[x].error = "fetchError"
        /\ exps[x].index = 1
        /\ exps[x].status = "destroyed"

\* C7: a local export appends one entry for each record whose file is
\* present and none for a record whose file is absent, and goes on to
\* finalize: the entry count is the record count minus the absent files.
\* A remote export that completes has one entry per record.
C7_EntryCount ==
    [][\A x \in Exports :
         LET e == exps'[x]
             absent == {i \in 1..Len(e.uploads) : recordKey(e.uploads[i]) \notin objects}
         IN
         /\ (~USING_SUPABASE /\ exps[x].pc = "idle" /\ e.uploads # <<>>)
            => /\ e.pc = "finalize"
               /\ Len(e.entries) = Len(e.uploads) - Cardinality(absent)
               /\ \A i \in 1..Len(e.uploads) :
                    Cardinality({k \in 1..Len(e.entries) :
                                   e.entries[k].source = recordKey(e.uploads[i])})
                    = IF i \in absent THEN 0 ELSE 1
         /\ ~USING_SUPABASE => e.status \notin {"500", "destroyed"}
         /\ (USING_SUPABASE /\ e.status = "zip")
            => Len(e.entries) = Len(e.uploads)
      ]_vars

\* a local export passed over a missing file and appended another
C7_Witness ==
    \E x \in Exports :
        /\ ~USING_SUPABASE
        /\ exps[x].status = "zip"
        /\ exps[x].entries # <<>>
        /\ Len(exps[x].entries) < Len(exps[x].uploads)

\* C8: within one export no two entries get the same name from
\* buildArchiveEntryName, whatever the records, also for equal original
\* names and for indexes beyond 999.
C8_UniqueNames ==
    Len(nameOut) = 2 => nameOut[1] # nameOut[2]

\* the same record named at index 0 and at index 1000
C8_Witness ==
    /\ Len(nameOut) = 2
    /\ nameArgs[1].upload = nameArgs[2].upload
    /\ nameArgs[1].index = 0
    /\ nameArgs[2].index = 1000

\* C9: the entries come in the order of the record list, and the entry of
\* the record at position i (from 0) has the prefix i + 1 in three digits,
\* also when earlier local records were passed over as missing.
C9_OrderAndPrefix ==
    \A x \in Exports :
        LET e == exps[x] IN
        \A k \in 1..Len(e.entries) :
            \E i \in 1..Len(e.uploads) :
                /\ e.entries[k].source = recordKey(e.uploads[i])
                /\ StartsWith(e.entries[k].name, ThreeDigits(i) \o <<"-">>)
                /\ USING_SUPABASE => i = k
                /\ k > 1 => \E i0 \in 1..(i - 1) :
                               e.entries[k - 1].source = recordKey(e.uploads[i0])

\* a local export whose first record was missing: its first entry is 002
C9_Witness ==
    \E x \in Exports :
        /\ ~USING_SUPABASE
        /\ exps[x].entries # <<>>
        /\ StartsWith(exps[x].entries[1].name, <<"0","0","2","-">>)

\* C10: after a batch of 3 images is committed to an event without other
\* uploads, a completed export has exactly 3 entries 001, 002, 003 that are
\* the batch's files in their input order, on either backend; and every
\* listing is newest first.
C10_BatchOfThreeInOrder ==
    /\ \A x \in Exports, r \in Requests :
         (/\ reqs[r].status = 201
          /\ Len(reqs[r].files) = 3
          /\ exps[x].status = "zip"
          /\ {exps[x].uploads[i].id : i \in 1..Len(exps[x].uploads)} = batchIds(reqs[r]))
         => /\ Len(exps[x].entries) = 3
            /\ \A k \in 1..3 :
                 /\ StartsWith(exps[x].entries[k].name, ThreeDigits(k) \o <<"-">>)
                 /\ exps[x].entries[k].source = recordKey(reqs[r].uploadRecords[k])
    /\ \A L \in observableListings : IsDescending(L)

\* C11: an upload request that names an event no record exists for is
\* answered 404 in the step that receives it; that step writes no object and
\* commits no record, and the request never holds a file or a record.
C11_UnknownEventRejected ==
    [][\A r \in Requests :
         /\ ( /\ reqs[r].pc = "idle"
              /\ reqs'[r].pc # "idle"
              /\ \A e \in dbEvents : e.id # reqs'[r].eventId )
            => /\ reqs'[r].pc = "done"
               /\ reqs'[r].status = 404
               /\ objects' = objects
               /\ dbUploads' = dbUploads
         /\ reqs'[r].status = 404
            => /\ reqs'[r].pc = "done"
               /\ reqs'[r].uploadedFiles = <<>>
               /\ reqs'[r].createdStoragePaths = <<>>
               /\ reqs'[r].uploadRecords = <<>>
               /\ \A i \in 1..Len(dbUploads') : dbUploads'[i].id \notin
                     {randomUUID("r", r, k) : k \in 1..MAX_FILES_PER_REQUEST}]_vars

\* an unknown event is refused while an event exists and holds an upload
C11_Witness ==
    \E r \in Requests :
      /\ reqs[r].status = 404
      /\ \A e \in dbEvents : e.id # reqs[r].eventId
      /\ dbEvents # {}
      /\ dbUploads # <<>>
      /\ objects # {}

\* the keys under which the files of a request from place k on would be
\* stored in the bucket
laterKeys(r, q, k) ==
    {q.eventId \o <<"/">> \o
        generatedName(t, randomUUID("f", r, j), q.files[j].originalname)
       : t \in 0..MaxClock, j \in k..Len(q.files)}

\* the request ended after the upload of its k-th file returned an error
uploadFailedAt(r, k) ==
    /\ reqs[r].pc = "done"
    /\ reqs[r].error = "upload"
    /\ reqs[r].index = k

\* C12 as stated: when the upload of the k-th item fails on the remote
\* backend, every object written for the batch is removed, no further item
\* is written, no record is committed, and the answer is 500.
C12_UploadFailureRemovesAll ==
    \A r \in Requests : \A k \in 1..MAX_FILES_PER_REQUEST :
      uploadFailedAt(r, k) =>
        /\ reqs[r].status = 500
        /\ Len(reqs[r].createdStoragePaths) = k - 1
        /\ batchKeys(reqs[r]) \cap objects = {}
        /\ laterKeys(r, reqs[r], k) \cap objects = {}
        /\ batchIds(reqs[r]) \cap storedIds = {}

\* C12, amended: when the upload of the k-th item fails on the remote
\* backend, a remove call is issued for every object written for the batch
\* (items 1..k-1) and each of them is removed unless its own remove call
\* fails; no further item is written, no record is committed, and the answer
\* is 500.
C12_UploadFailureCompensates ==
    \A r \in Requests : \A k \in 1..MAX_FILES_PER_REQUEST :
      uploadFailedAt(r, k) =>
        /\ reqs[r].status = 500
        /\ Len(reqs[r].createdStoragePaths) = k - 1
        /\ reqs[r].removeCalls = batchKeys(reqs[r])
        /\ batchKeys(reqs[r]) \cap objects = reqs[r].failedRemoves
        /\ laterKeys(r, reqs[r], k) \cap objects = {}
        /\ batchIds(reqs[r]) \cap storedIds = {}

\* the third upload failed; of the two objects written one was removed and
\* the removal of the other failed
C12_Witness ==
    \E r \in Requests :
      /\ uploadFailedAt(r, 3)
      /\ Cardinality(batchKeys(reqs[r])) = 2
      /\ Cardinality(reqs[r].failedRemoves) = 1

\* what the client is sent: res.status(...).json({error: message})
response(q) == [status |-> q.status, error |-> q.error]

\* the request ended after every upload succeeded and the insert of the
\* records threw (Supabase backend)
commitFailed(r) ==
    /\ USING_SUPABASE
    /\ reqs[r].pc = "done"
    /\ reqs[r].files # <<>>
    /\ Len(reqs[r].createdStoragePaths) = Len(reqs[r].files)
    /\ reqs[r].status # 201

\* C13: a failure of the compensation is never propagated.  When the
\* metadata commit fails, a remove call is issued for every object written
\* for the batch and every call is waited for, whether or not others fail;
\* the answer is 500 with the message of the commit error, the same answer
\* as when all removals succeed.
C13_CompensationFailureSwallowed ==
    \A r \in Requests :
      commitFailed(r) =>
        /\ response(reqs[r]) = [status |-> 500, error |-> "commit"]
        /\ reqs[r].removeCalls = batchKeys(reqs[r])
        /\ reqs[r].pending = {}
        /\ batchKeys(reqs[r]) \cap objects = reqs[r].failedRemoves
        /\ batchIds(reqs[r]) \cap storedIds = {}

\* the commit of a batch of three failed; one removal failed and the others
\* were still carried out
C13_Witness ==
    \E r \in Requests :
      /\ commitFailed(r)
      /\ Cardinality(batchKeys(reqs[r])) = 3
      /\ Cardinality(reqs[r].failedRemoves) = 1
      /\ Cardinality(batchKeys(reqs[r]) \cap objects) = 1

---------------------------------------------------------------------------
(* Properties of the event records *)

\* C14: events are immutable.  No step changes a field of an event record
\* or deletes the record, a read of a corrupt or unreadable local db file
\* included.
C14_EventsImmutable ==
    [][\A e \in dbEvents : e \in dbEvents']_vars

---------------------------------------------------------------------------
(* Properties of the admin's requests *)

\* the request names an event and carries the admin token of that event
holdsSecret(eventId, token) ==
    \E e \in dbEvents : e.id = eventId /\ e.adminToken = token

---------------------------------------------------------------------------
(* Properties of the export stream *)

\* C16: cancellation.  Once the response of an export is closed, the export
\* issues no further backend read: no signed URL is created, no fetch is
\* started and no entry is added for a remaining record.
C16_NoReadAfterClose ==
    [][\A x \in Exports :
         exps[x].closed =>
           /\ exps'[x].index = exps[x].index
           /\ exps'[x].entries = exps[x].entries
           /\ exps'[x].error = exps[x].error]_vars

\* the entry sources that are resolved and not yet taken by the archive
\* writer: fetched responses on Supabase; on disk a file is opened only when
\* the writer takes the entry
unconsumedSources(e) ==
    IF USING_SUPABASE THEN Len(e.entries) - e.consumed ELSE 0

\* C17: the export is consumer-paced.  The source of record i+1 is resolved
\* only after the archive writer has taken entry i, so at most one resolved
\* source waits for the writer, however many records the export has.
C17_ConsumerPaced ==
    [][\A x \in Exports :
         /\ (USING_SUPABASE /\ exps'[x].index > exps[x].index /\ exps[x].index >= 1)
              => exps[x].consumed >= Len(exps[x].entries)
         /\ unconsumedSources(exps'[x]) <= 1]_vars

---------------------------------------------------------------------------
(* Properties across events *)

\* the stored objects of an event: the files of its directory, the bucket
\* objects under its prefix
eventObjects(stored, eventId) ==
    {key \in stored : StartsWith(key, eventId \o <<"/">>)}

\* the step is taken by an upload or an export request for another event
stepOfOtherEvent(eventId) ==
    \/ \E r \in Requests : reqs'[r] # reqs[r] /\ reqs'[r].eventId # eventId
    \/ \E x \in Exports : exps'[x] # exps[x] /\ exps'[x].eventId # eventId

---------------------------------------------------------------------------
(* Properties of the local load-modify-write *)

\* two requests have completed successfully on the local backend
bothCommitted(r1, r2) ==
    /\ ~USING_SUPABASE
    /\ r1 # r2
    /\ reqs[r1].status = 201
    /\ reqs[r2].status = 201

\* the two requests were in flight together: each had stored its first file
\* at time 0 and committed at time 1
overlapped(r1, r2) ==
    /\ reqs[r1].eventId = reqs[r2].eventId
    /\ reqs[r1].uploadedAt = 1
    /\ reqs[r2].uploadedAt = 1
    /\ reqs[r1].uploadedFiles[1].filename[1] = "0"
    /\ reqs[r2].uploadedFiles[1].filename[1] = "0"

\* records committed by one of the two requests are absent from the store
updateLost(r1, r2) ==
    \/ ~(batchIds(reqs[r1]) \subseteq storedIds)
    \/ ~(batchIds(reqs[r2]) \subseteq storedIds)

uploadFields ==
    {"id", "eventId", "originalName", "storagePath", "mimeType", "size", "uploadedAt"}

\* the URL of the file endpoint for a record and a token
fileEndpointUrl(item, token) ==
    AdminFile \o item.eventId \o <<"/">> \o item.storagePath \o TokenQuery \o <<token>>

\* C20 as stated: the i-th element attachViewUrls returns is the i-th record
\* it was given, with a credential for that record's own storagePath, on
\* both backends, also when the provider fails to sign a path.
C20_EveryUrlOwnCredential ==
    \A v \in Views :
      (views[v].kind = "page" /\ views[v].status = 200) =>
        /\ Len(views[v].out) = Len(views[v].uploads)
        /\ \A i \in 1..Len(views[v].uploads) :
             /\ \A f \in uploadFields : views[v].out[i][f] = views[v].uploads[i][f]
             /\ views[v].out[i].viewUrl =
                  IF USING_SUPABASE THEN signedUrlOf(views[v].uploads[i].storagePath)
                  ELSE fileEndpointUrl(views[v].uploads[i], views[v].token)

\* C20, amended: attachViewUrls keeps the order and the pairing.  The i-th
\* element it returns is the i-th record it was given, with a credential for
\* that record's own storagePath and never for another's: on Supabase the
\* URL signed for that path, or an empty viewUrl when the provider could not
\* sign that path; on disk the URL of the file endpoint for that record's
\* event and path with the admin token.
C20_ViewUrlsAligned ==
    \A v \in Views :
      (views[v].kind = "page" /\ views[v].status = 200) =>
        LET given == views[v].uploads
            out == views[v].out
        IN  /\ Len(out) = Len(given)
            /\ \A i \in 1..Len(given) :
                 /\ \A f \in uploadFields : out[i][f] = given[i][f]
                 /\ IF USING_SUPABASE
                      THEN out[i].viewUrl =
                             IF i \in views[v].failed THEN <<>>
                             ELSE signedUrlOf(given[i].storagePath)
                      ELSE out[i].viewUrl = fileEndpointUrl(given[i], views[v].token)
                 /\ \A j \in 1..Len(given) :
                      (j # i /\ out[i].viewUrl # <<>>) =>
                        out[i].viewUrl # signedUrlOf(given[j].storagePath)

\* the page of three uploads on Supabase, where the provider could not sign
\* the first path
C20_Witness ==
    \E v \in Views :
      /\ USING_SUPABASE
      /\ views[v].status = 200
      /\ Len(views[v].out) = 3
      /\ views[v].failed = {1}
      /\ views[v].out[2].viewUrl # <<>>

---------------------------------------------------------------------------
(* Properties of the extension of an entry name *)

EndsWith(str, suffix) ==
    Len(str) >= Len(suffix) /\ SubSeq(str, Len(str) - Len(suffix) + 1, Len(str)) = suffix

DotMp4 == <<".", "m", "p", "4">>

\* the sanitized name of the record of a call, and the name without any
\* appended extension
safeNameOf(upload) ==
    sanitizeArchiveName(IF upload.originalName # <<>> THEN upload.originalName
                        ELSE basename(upload.storagePath))

bareName(call) == entryPrefix(call.index) \o <<"-">> \o safeNameOf(call.upload)

---------------------------------------------------------------------------
(* Properties of the empty export *)

\* C22: an export request for an event without upload records is answered
\* 404 before the exporter runs.  The step that receives it creates no
\* archive, sets no application/zip header and reads no stored object, and
\* an append function is never called with an empty list.
C22_EmptyExportRejected ==
    [][\A x \in Exports :
         /\ ( /\ exps[x].pc = "idle"
              /\ exps'[x].pc # "idle"
              /\ holdsSecret(exps'[x].eventId, exps'[x].token)
              /\ \A i \in 1..Len(dbUploads) : dbUploads[i].eventId # exps'[x].eventId )
            => /\ exps'[x].pc = "done"
               /\ exps'[x].status = "404"
               /\ objects' = objects
               /\ dbUploads' = dbUploads
         /\ exps'[x].status = "404"
            => /\ ~exps'[x].archive
               /\ exps'[x].contentType = "none"
               /\ exps'[x].uploads = <<>>
               /\ exps'[x].index = 0
               /\ exps'[x].entries = <<>>
               /\ exps'[x].consumed = 0
               /\ ~exps'[x].headersSent
               /\ ~exps'[x].finalizeCalled
         /\ (exps'[x].archive \/ exps'[x].pc \in {"append", "finalize"})
            => /\ exps'[x].uploads # <<>>
               /\ exps'[x].contentType = "application/zip"]_vars

\* the admin of an event without records asked for the export and got 404,
\* while files of an upload that is still parsed lie in the event's directory
C22_Witness ==
    \E x \in Exports :
      /\ exps[x].status = "404"
      /\ holdsSecret(exps[x].eventId, exps[x].token)
      /\ dbUploads = <<>>
      /\ eventObjects(objects, exps[x].eventId) # {}

====
